---- MODULE Spec2Model ----
(***************************************************************************)
(* StreamDiffusionWrapper (examples/wrapper.py): construction of the       *)
(* wrapper (__init__ and _load_model, step by step, with the acceleration  *)
(* block's try/except), the engines directory on disk shared by successive *)
(* constructions, and the call interface (__call__, txt2img, img2img,      *)
(* preprocess_image, postprocess_image).                                   *)
(*                                                                         *)
(* The diffusion pipeline, the TensorRT compiler and the engine runtime    *)
(* are external: each external call either returns or raises, and the      *)
(* model takes both outcomes wherever the call sits inside the try block.  *)
(***************************************************************************)
EXTENDS Integers, Sequences, FiniteSets, TLC

None == "None"

\* ---------------------------------------------------------------- bounds
\* len(t_index_list) ranges over 1..MaxTIndexLen
MaxTIndexLen == 2
\* frame_buffer_size ranges over 1..MaxFrameBufferSize
MaxFrameBufferSize == 2
\* inference calls made through one wrapper
MaxCalls == 2
\* wrappers constructed one after another over one engines directory
MaxLoads == 2

\* ------------------------------------------------------- argument domains
\* A model id is kept as the sequence of its pieces, so that the two string
\* tests of _load_model are computed on it.
ModelIds ==
    { <<"KBlueLeaf/kohaku-v2.1">>,
      <<"stabilityai/sd-", "turbo">>,
      <<"model", ".safetensors">> }

LcmLoraIds == {None, "latent-consistency/lcm-lora-sdv1-5"}
VaeIds == {None, "madebyollin/taesdxl"}
Modes == {"img2img", "txt2img"}
Accelerations == {"none", "xformers", "sfast", "tensorrt"}
Widths == {256, 512}
Heights == {512}
Warmups == {0, 10}
ImageArgs == {"None", "str", "Image", "Tensor"}

\* model_id.endswith(suffix)
endswith(model_id, suffix) ==
    Len(model_id) > 0 /\ model_id[Len(model_id)] = suffix

\* word in model_id
contains(model_id, word) ==
    \E i \in 1..Len(model_id) : model_id[i] = word

\* The arguments of __init__ that _load_model and the call interface read.
Configs ==
    [ model_id : ModelIds,
      t_index_len : 1..MaxTIndexLen,
      mode : Modes,
      lcm_lora_id : LcmLoraIds,
      vae_id : VaeIds,
      frame_buffer_size : 1..MaxFrameBufferSize,
      width : Widths,
      height : Heights,
      warmup : Warmups,
      acceleration : Accelerations,
      use_lcm_lora : BOOLEAN,
      use_tiny_vae : BOOLEAN ]

\* The constructions that share an engines directory are explored with
\* TensorRT acceleration and fewer free arguments.
CacheConfigs ==
    { c \in Configs :
        /\ c.acceleration = "tensorrt"
        /\ c.model_id = <<"KBlueLeaf/kohaku-v2.1">>
        /\ c.lcm_lora_id = None
        /\ c.t_index_len = 1
        /\ c.warmup = 10
        /\ c.use_lcm_lora
        /\ c.use_tiny_vae }

VARIABLES
    pc,        \* position of the single thread of control
    cfg,       \* arguments of the construction under way / of the live wrapper
    self,      \* the wrapper's own fields
    stream,    \* the StreamDiffusion object held in self.stream
    disk,      \* engine files under engines/
    disk0,     \* the engine files as _load_model found them
    log,       \* steps _load_model has performed, in order
    raised,    \* an exception reached the except clause of _load_model
    pre,       \* stream.unet and stream.vae on entry to the try block
    loads,     \* constructions started
    image,     \* argument of the last __call__
    ret,       \* value returned by the last __call__
    trace      \* external calls made by the last __call__, in order

vars ==
    << pc, cfg, self, stream, disk, disk0, log, raised, pre, loads,
       image, ret, trace >>

\* ------------------------------------------------------------ the objects
NoSelf ==
    [ width |-> 0, height |-> 0, mode |-> None,
      frame_buffer_size |-> 0, batch_size |-> 0 ]

NoUnet ==
    [ id |-> None, lora |-> None, fused |-> FALSE, engine_path |-> <<>>,
      data_parallel |-> FALSE ]

NoVae ==
    [ id |-> None, pretrained |-> None, forward_override |-> FALSE,
      encoder_path |-> <<>>, decoder_path |-> <<>>, config |-> None ]

NoStream ==
    [ unet |-> NoUnet, vae |-> NoVae, xformers |-> FALSE, sfast |-> FALSE,
      prepare_calls |-> 0, inference_calls |-> 0,
      similar_image_filter |-> FALSE ]

NoCfg ==
    [ model_id |-> <<>>, t_index_len |-> 0, mode |-> None,
      lcm_lora_id |-> None, vae_id |-> None, frame_buffer_size |-> 0,
      width |-> 0, height |-> 0, warmup |-> 0, acceleration |-> None,
      use_lcm_lora |-> FALSE, use_tiny_vae |-> FALSE ]

NoRet == [ type |-> None, items |-> <<>> ]

NoPre == [ unet |-> None, vae |-> None ]

\* ------------------------------------------------------------ engine paths
\* str(bool), as an f-string formats it
FormatBool(b) == IF b THEN "True" ELSE "False"

\* a prefix that also names the width
create_prefix_with_width(c, s, max_batch_size, min_batch_size) ==
    << c.model_id,
       "--lcm_lora-", FormatBool(c.use_tiny_vae),
       "--tiny_vae-", FormatBool(c.use_lcm_lora),
       "--max_batch-", max_batch_size,
       "--min_batch-", min_batch_size,
       "--mode-", s.mode,
       "--width-", s.width >>

\* create_prefix: the labels lcm_lora and tiny_vae carry each other's flag
create_prefix(c, s, max_batch_size, min_batch_size) ==
    << c.model_id,
       "--lcm_lora-", FormatBool(c.use_tiny_vae),
       "--tiny_vae-", FormatBool(c.use_lcm_lora),
       "--max_batch-", max_batch_size,
       "--min_batch-", min_batch_size,
       "--mode-", s.mode >>

\* self.batch_size if self.mode == "txt2img" else 1
vae_batch_size(s) == IF s.mode = "txt2img" THEN s.batch_size ELSE 1

engine_dir == "engines"

unet_path(c, s) ==
    << engine_dir, create_prefix(c, s, s.batch_size, s.batch_size),
       "unet.engine" >>

vae_encoder_path(c, s) ==
    << engine_dir, create_prefix(c, s, vae_batch_size(s), vae_batch_size(s)),
       "vae_encoder.engine" >>

vae_decoder_path(c, s) ==
    << engine_dir, create_prefix(c, s, vae_batch_size(s), vae_batch_size(s)),
       "vae_decoder.engine" >>

\* os.path.exists(path)
exists(d, path) == \E f \in d : f.path = path

\* The arguments of a construction that shape the modules it compiles.
ShapeParams(c, s) ==
    [ model_id |-> c.model_id, lcm_lora_id |-> c.lcm_lora_id,
      vae_id |-> c.vae_id, use_lcm_lora |-> c.use_lcm_lora,
      use_tiny_vae |-> c.use_tiny_vae, width |-> s.width,
      height |-> s.height, batch_size |-> s.batch_size, mode |-> s.mode ]

\* compile_unet / compile_vae_decoder / compile_vae_encoder returning
\* normally: the engine built from the module handed over is at engine_path.
\* The file remembers the arguments of the load that compiled it and the
\* modules the stream held then. A compilation that raises leaves no file
\* at engine_path.
compile_engine(d, engine_path, c, s, st) ==
    d \cup { [ path |-> engine_path, params |-> ShapeParams(c, s),
               unet |-> st.unet, vae |-> st.vae ] }

\* --------------------------------------------------------------- __init__
Init ==
    /\ pc = "start"
    /\ cfg = NoCfg
    /\ self = NoSelf
    /\ stream = NoStream
    /\ disk = {}
    /\ disk0 = {}
    /\ log = <<>>
    /\ raised = FALSE
    /\ pre = NoPre
    /\ loads = 0
    /\ image = None
    /\ ret = NoRet
    /\ trace = <<>>

\* __init__ up to the call of _load_model: the wrapper's fields. A wrapper
\* is constructed in a fresh process or after an earlier one was dropped;
\* only the engines directory outlives a wrapper.
init_fields(c) ==
    [ width |-> c.width, height |-> c.height, mode |-> c.mode,
      frame_buffer_size |-> c.frame_buffer_size,
      batch_size |-> c.t_index_len * c.frame_buffer_size ]

Construct(C, n) ==
    /\ pc \in {"start", "ready"}
    /\ loads < n
    /\ \E c \in C :
        /\ cfg' = c
        /\ self' = init_fields(c)
    /\ stream' = NoStream
    /\ disk0' = disk
    /\ log' = <<>>
    /\ raised' = FALSE
    /\ pre' = NoPre
    /\ loads' = loads + 1
    /\ image' = None
    /\ ret' = NoRet
    /\ trace' = <<>>
    /\ pc' = "load_pipe"
    /\ UNCHANGED disk

\* ------------------------------------------------------------ _load_model
\* The pipeline is built from the model id and wrapped in a StreamDiffusion.
load_pipe ==
    /\ pc = "load_pipe"
    /\ stream' =
          [ NoStream EXCEPT
              !.unet = [ NoUnet EXCEPT !.id = "pipe.unet" ],
              !.vae = [ NoVae EXCEPT !.id = "pipe.vae", !.pretrained = "pipe",
                                     !.config = "pipe.vae.config" ] ]
    /\ log' =
          Append(Append(log,
                   IF endswith(cfg.model_id, ".safetensors")
                   THEN "from_single_file" ELSE "from_pretrained"),
                 "StreamDiffusion")
    /\ pc' = "lcm_lora"
    /\ UNCHANGED << cfg, self, disk, disk0, raised, pre, loads, image, ret, trace >>

\* fuse_lora called before load_lcm_lora
lcm_lora_fuse_first ==
    /\ pc = "lcm_lora"
    /\ IF ~contains(cfg.model_id, "turbo") /\ cfg.use_lcm_lora
       THEN /\ stream' =
                 [ stream EXCEPT
                     !.unet.lora = IF cfg.lcm_lora_id # None
                                   THEN cfg.lcm_lora_id ELSE "default" ]
            /\ log' = Append(Append(log, "fuse_lora"), "load_lcm_lora")
       ELSE UNCHANGED << stream, log >>
    /\ pc' = "tiny_vae"
    /\ UNCHANGED << cfg, self, disk, disk0, raised, pre, loads, image, ret, trace >>

\* load_lcm_lora then fuse_lora, unless the model is a turbo model
lcm_lora ==
    /\ pc = "lcm_lora"
    /\ IF ~contains(cfg.model_id, "turbo") /\ cfg.use_lcm_lora
       THEN /\ stream' =
                 [ stream EXCEPT
                     !.unet.lora = IF cfg.lcm_lora_id # None
                                   THEN cfg.lcm_lora_id ELSE "default",
                     !.unet.fused = TRUE ]
            /\ log' = Append(Append(log, "load_lcm_lora"), "fuse_lora")
       ELSE UNCHANGED << stream, log >>
    /\ pc' = "tiny_vae"
    /\ UNCHANGED << cfg, self, disk, disk0, raised, pre, loads, image, ret, trace >>

\* stream.vae = AutoencoderTiny.from_pretrained(...)
tiny_vae ==
    /\ pc = "tiny_vae"
    /\ IF cfg.use_tiny_vae
       THEN /\ stream' =
                 [ stream EXCEPT
                     !.vae = [ NoVae EXCEPT
                                 !.id = "AutoencoderTiny",
                                 !.pretrained = IF cfg.vae_id # None
                                                THEN cfg.vae_id
                                                ELSE "madebyollin/taesd",
                                 !.config = "AutoencoderTiny.config" ] ]
            /\ log' = Append(log, "tiny_vae")
       ELSE UNCHANGED << stream, log >>
    /\ pc' = "accel_xformers"
    /\ UNCHANGED << cfg, self, disk, disk0, raised, pre, loads, image, ret, trace >>

\* A handler that lets the exception out of _load_model.
except_propagates ==
    /\ raised' = TRUE
    /\ pc' = "propagated"

\* except Exception: the traceback is printed and control goes on to
\* stream.prepare
except_Exception ==
    /\ raised' = TRUE
    /\ pc' = "prepare"

\* try: if acceleration == "xformers": enable_xformers_memory_efficient_attention()
accel_xformers ==
    /\ pc = "accel_xformers"
    /\ pre' = [ unet |-> stream.unet.id, vae |-> stream.vae.id ]
    /\ IF cfg.acceleration = "xformers"
       THEN /\ log' = Append(log, "enable_xformers")
            /\ \E ok \in BOOLEAN :
                 IF ok
                 THEN /\ stream' = [ stream EXCEPT !.xformers = TRUE ]
                      /\ pc' = "accel_tensorrt"
                      /\ UNCHANGED raised
                 ELSE /\ except_Exception
                      /\ UNCHANGED stream
       ELSE /\ pc' = "accel_tensorrt"
            /\ UNCHANGED << stream, log, raised >>
    /\ UNCHANGED << cfg, self, disk, disk0, loads, image, ret, trace >>

\* if acceleration == "tensorrt": the three imports, then the engine paths
accel_tensorrt ==
    /\ pc = "accel_tensorrt"
    /\ IF cfg.acceleration = "tensorrt"
       THEN /\ log' = Append(log, "import_tensorrt")
            /\ \E ok \in BOOLEAN :
                 IF ok
                 THEN pc' = "compile_unet" /\ UNCHANGED raised
                 ELSE except_Exception
       ELSE /\ pc' = "accel_sfast"
            /\ UNCHANGED << log, raised >>
    /\ UNCHANGED << cfg, self, stream, disk, disk0, pre, loads, image, ret, trace >>

\* if not os.path.exists(unet_path): compile_unet(stream.unet, ...)
compile_unet ==
    /\ pc = "compile_unet"
    /\ IF ~exists(disk, unet_path(cfg, self))
       THEN /\ log' = Append(log, "compile_unet")
            /\ \E ok \in BOOLEAN :
                 IF ok
                 THEN /\ disk' = compile_engine(disk, unet_path(cfg, self),
                                                cfg, self, stream)
                      /\ pc' = "compile_vae_decoder"
                      /\ UNCHANGED raised
                 ELSE /\ except_Exception
                      /\ UNCHANGED disk
       ELSE /\ pc' = "compile_vae_decoder"
            /\ UNCHANGED << disk, log, raised >>
    /\ UNCHANGED << cfg, self, stream, disk0, pre, loads, image, ret, trace >>

\* if not os.path.exists(vae_decoder_path): stream.vae.forward is set to
\* stream.vae.decode, compile_vae_decoder(stream.vae, ...) runs, and the
\* attribute is deleted after it has returned
compile_vae_decoder ==
    /\ pc = "compile_vae_decoder"
    /\ IF ~exists(disk, vae_decoder_path(cfg, self))
       THEN /\ log' = Append(log, "compile_vae_decoder")
            /\ \E ok \in BOOLEAN :
                 LET overridden ==
                       [ stream EXCEPT !.vae.forward_override = TRUE ]
                 IN  IF ok
                     THEN /\ disk' = compile_engine(disk,
                                          vae_decoder_path(cfg, self),
                                          cfg, self, overridden)
                          /\ stream' =
                               [ overridden EXCEPT
                                   !.vae.forward_override = FALSE ]
                          /\ pc' = "compile_vae_encoder"
                          /\ UNCHANGED raised
                     ELSE /\ stream' = overridden
                          /\ except_Exception
                          /\ UNCHANGED disk
       ELSE /\ pc' = "compile_vae_encoder"
            /\ UNCHANGED << stream, disk, log, raised >>
    /\ UNCHANGED << cfg, self, disk0, pre, loads, image, ret, trace >>

\* if not os.path.exists(vae_encoder_path): compile_vae_encoder(...)
compile_vae_encoder ==
    /\ pc = "compile_vae_encoder"
    /\ IF ~exists(disk, vae_encoder_path(cfg, self))
       THEN /\ log' = Append(log, "compile_vae_encoder")
            /\ \E ok \in BOOLEAN :
                 IF ok
                 THEN /\ disk' = compile_engine(disk,
                                      vae_encoder_path(cfg, self),
                                      cfg, self, stream)
                      /\ pc' = "mount_unet"
                      /\ UNCHANGED raised
                 ELSE /\ except_Exception
                      /\ UNCHANGED disk
       ELSE /\ pc' = "mount_unet"
            /\ UNCHANGED << disk, log, raised >>
    /\ UNCHANGED << cfg, self, stream, disk0, pre, loads, image, ret, trace >>

\* cuda.Stream(), then stream.unet = UNet2DConditionModelEngine(unet_path, ...)
mount_unet ==
    /\ pc = "mount_unet"
    /\ log' = Append(log, "mount_unet")
    /\ \E ok \in BOOLEAN :
         IF ok
         THEN /\ stream' =
                   [ stream EXCEPT
                       !.unet = [ NoUnet EXCEPT
                                    !.id = "UNet2DConditionModelEngine",
                                    !.engine_path = unet_path(cfg, self) ] ]
              /\ pc' = "mount_vae"
              /\ UNCHANGED raised
         ELSE /\ except_Exception
              /\ UNCHANGED stream
    /\ UNCHANGED << cfg, self, disk, disk0, pre, loads, image, ret, trace >>

\* stream.vae = AutoencoderKLEngine(vae_encoder_path, vae_decoder_path, ...),
\* which then receives the replaced VAE's config and dtype
mount_vae ==
    /\ pc = "mount_vae"
    /\ log' = Append(log, "mount_vae")
    /\ \E ok \in BOOLEAN :
         IF ok
         THEN /\ stream' =
                   [ stream EXCEPT
                       !.vae = [ NoVae EXCEPT
                                   !.id = "AutoencoderKLEngine",
                                   !.encoder_path = vae_encoder_path(cfg, self),
                                   !.decoder_path = vae_decoder_path(cfg, self),
                                   !.config = stream.vae.config ] ]
              /\ pc' = "accel_sfast"
              /\ UNCHANGED raised
         ELSE /\ except_Exception
              /\ UNCHANGED stream
    /\ UNCHANGED << cfg, self, disk, disk0, pre, loads, image, ret, trace >>

\* if acceleration == "sfast": stream = accelerate_with_stable_fast(stream);
\* when the import or the call raises the assignment does not happen
accel_sfast ==
    /\ pc = "accel_sfast"
    /\ IF cfg.acceleration = "sfast"
       THEN /\ log' = Append(log, "accelerate_with_stable_fast")
            /\ \E ok \in BOOLEAN :
                 IF ok
                 THEN /\ stream' = [ stream EXCEPT !.sfast = TRUE ]
                      /\ pc' = "prepare"
                      /\ UNCHANGED raised
                 ELSE /\ except_Exception
                      /\ UNCHANGED stream
       ELSE /\ pc' = "prepare"
            /\ UNCHANGED << stream, log, raised >>
    /\ UNCHANGED << cfg, self, disk, disk0, pre, loads, image, ret, trace >>

\* stream.prepare("", num_inference_steps=50, ...); return stream
prepare ==
    /\ pc = "prepare"
    /\ stream' = [ stream EXCEPT !.prepare_calls = @ + 1 ]
    /\ log' = Append(log, "prepare")
    /\ pc' = "init_tail"
    /\ UNCHANGED << cfg, self, disk, disk0, raised, pre, loads, image, ret, trace >>

\* __init__ after _load_model has returned: DataParallel when device_ids
\* is given, the similar-image filter when asked for
init_tail ==
    /\ pc = "init_tail"
    /\ \E device_ids \in {None, "[0, 1]"}, enable_similar_image_filter \in BOOLEAN :
         stream' =
           [ stream EXCEPT
               !.unet.data_parallel = (device_ids # None),
               !.similar_image_filter = enable_similar_image_filter ]
    /\ pc' = "ready"
    /\ UNCHANGED << cfg, self, disk, disk0, log, raised, pre, loads, image, ret, trace >>

\* --------------------------------------------------------- call interface
\* Values are kept by their Python type.
Image == [ type |-> "Image", items |-> <<>> ]
ImageList == [ type |-> "List[Image]", items |-> <<>> ]
Tuple2(a, b) == [ type |-> "tuple", items |-> << a, b >> ]

\* One external call: the callee, the type of the value handed over, and
\* whether that value came out of preprocess_image.
Ext(fn, arg, preprocessed, n) ==
    [ fn |-> fn, arg |-> arg, preprocessed |-> preprocessed, n |-> n ]

\* postprocess_image: the list of PIL images when frame_buffer_size > 1,
\* its first element otherwise
postprocess_image(s) ==
    IF s.frame_buffer_size > 1 THEN ImageList ELSE Image

\* preprocess_image: a path is opened, an image is converted and resized,
\* and image_processor.preprocess makes the tensor
preprocess_image(img) ==
    (IF img = "str"
     THEN << Ext("Image.open", "str", FALSE, 0),
             Ext("Image.resize", "Image", FALSE, 0) >>
     ELSE <<>>)
    \o << Ext("Image.resize", "Image", FALSE, 0),
          Ext("image_processor.preprocess", "Image", FALSE, 0) >>

\* txt2img that takes the batch branch whatever frame_buffer_size is
txt2img_always_batch(s) ==
    [ ret |-> postprocess_image(s),
      trace |-> << Ext("stream.txt2img_batch", "int", FALSE, s.batch_size) >> ]

\* txt2img: the value returned and the external calls made
txt2img(s) ==
    [ ret |-> postprocess_image(s),
      trace |->
        << IF s.frame_buffer_size > 1
           THEN Ext("stream.txt2img_batch", "int", FALSE, s.batch_size)
           ELSE Ext("stream.txt2img", "None", FALSE, 0) >> ]

\* img2img: the value returned and the external calls made
img2img(s, img) ==
    LET pil == img \in {"str", "Image"}
    IN  [ ret |-> Tuple2(postprocess_image(s).type, "skip_prob"),
          trace |->
            (IF pil THEN preprocess_image(img) ELSE <<>>)
            \o << Ext("stream.__call__", IF pil THEN "Tensor" ELSE img,
                      pil, 0) >> ]

\* __call__
call(s, img) ==
    IF s.mode = "img2img" THEN img2img(s, img) ELSE txt2img(s)

Call ==
    /\ pc = "ready"
    /\ stream.inference_calls < MaxCalls
    /\ \E img \in ImageArgs :
         /\ image' = img
         /\ ret' = call(self, img).ret
         /\ trace' = call(self, img).trace
    /\ stream' = [ stream EXCEPT !.inference_calls = @ + 1 ]
    /\ UNCHANGED << pc, cfg, self, disk, disk0, log, raised, pre, loads >>

\* ----------------------------------------------------------- specification
LoadSteps ==
    \/ load_pipe
    \/ lcm_lora
    \/ tiny_vae
    \/ accel_xformers
    \/ accel_tensorrt
    \/ compile_unet
    \/ compile_vae_decoder
    \/ compile_vae_encoder
    \/ mount_unet
    \/ mount_vae
    \/ accel_sfast
    \/ prepare
    \/ init_tail

\* One wrapper, every argument free.
Next == Construct(Configs, 1) \/ LoadSteps \/ Call

Spec == Init /\ [][Next]_vars

\* Wrappers constructed one after another over one engines directory; calls
\* made through a wrapper in between leave the directory as it is.
NextCache == Construct(CacheConfigs, MaxLoads) \/ LoadSteps

SpecCache == Init /\ [][NextCache]_vars

\* ------------------------------------------------------------------ claims
Range(q) == { q[i] : i \in 1..Len(q) }

\* _load_model has returned its stream to __init__
Returned == pc \in {"init_tail", "ready"}

\* C1: a failure at any step of the acceleration block, in any acceleration
\* mode, is caught: control is at stream.prepare with prepare not yet called
\* and able to run, or _load_model has returned a stream on which prepare
\* was called exactly once. No execution leaves _load_model by an
\* exception, and every return follows exactly one prepare.
C1_AccelerationFailureCaught ==
    /\ pc \in { "start", "load_pipe", "lcm_lora", "tiny_vae",
                 "accel_xformers", "accel_tensorrt", "compile_unet",
                 "compile_vae_decoder", "compile_vae_encoder", "mount_unet",
                 "mount_vae", "accel_sfast", "prepare", "init_tail",
                 "ready" }
    /\ raised => pc \in {"prepare", "init_tail", "ready"}
    /\ pc = "prepare" => stream.prepare_calls = 0 /\ ENABLED prepare
    /\ Returned => /\ stream.prepare_calls = 1
                   /\ stream.unet.id # None
                   /\ stream.vae.id # None
    /\ cfg.acceleration = "none" => ~raised

\* C1 witness: a TensorRT load whose VAE engine failed to load has returned
\* after one prepare.
C1_Witness ==
    /\ raised
    /\ pc = "ready"
    /\ cfg.acceleration = "tensorrt"
    /\ log[Len(log) - 1] = "mount_vae"
    /\ stream.prepare_calls = 1

\* C2: when the acceleration block has failed, the stream that _load_model
\* returns carries the UNet and the VAE that were in place on entry to the
\* block.
C2_FallbackUnaccelerated ==
    (raised /\ pc = "init_tail") =>
        /\ stream.unet.id = pre.unet
        /\ stream.vae.id = pre.vae

\* C3: a call returns an image, or a list of images when
\* frame_buffer_size > 1, whatever the mode.
C3_CallReturnsImage ==
    (pc = "ready" /\ trace # <<>>) =>
        ret = (IF self.frame_buffer_size > 1 THEN ImageList ELSE Image)

\* C4: when _load_model returns, warmup inference steps have run on the
\* stream.
C4_WarmupPerformed ==
    pc = "init_tail" => stream.inference_calls = cfg.warmup

\* C9: once _load_model has returned, the VAE carries no forward override.
\* (The VAE an engine replaced had its override deleted before the mount.)
C9_ForwardOverrideTemporary ==
    Returned => ~stream.vae.forward_override

\* The phase of _load_model a logged step belongs to, in the order
\* pipeline construction, LoRA load, LoRA fuse, tiny VAE, acceleration,
\* prepare.
Phase(step) ==
    CASE step \in {"from_single_file", "from_pretrained", "StreamDiffusion"} -> 1
      [] step = "load_lcm_lora" -> 2
      [] step = "fuse_lora" -> 3
      [] step = "tiny_vae" -> 4
      [] step = "prepare" -> 6
      [] OTHER -> 5

\* The engines this execution of _load_model has compiled.
CompiledNow == disk \ disk0

InferenceCalls ==
    { i \in 1..Len(trace) :
        trace[i].fn \in {"stream.__call__", "stream.txt2img",
                         "stream.txt2img_batch"} }

PreprocessCalls ==
    { i \in 1..Len(trace) : trace[i].fn = "image_processor.preprocess" }

\* C8: a call makes exactly one inference call, the last external call it
\* makes. In img2img mode it is stream(image): a path or PIL image has gone
\* through preprocess exactly once, anything else is handed over as given.
\* In any other mode it is txt2img_batch(batch_size) when
\* frame_buffer_size > 1 and txt2img() otherwise, with no preprocessing.
C8_OneInferenceCall ==
    (pc = "ready" /\ stream.inference_calls > 0) =>
        /\ Cardinality(InferenceCalls) = 1
        /\ Len(trace) \in InferenceCalls
        /\ LET inf == trace[Len(trace)]
           IN  IF cfg.mode = "img2img"
               THEN /\ inf.fn = "stream.__call__"
                    /\ IF image \in {"str", "Image"}
                       THEN /\ inf.arg = "Tensor"
                            /\ inf.preprocessed
                            /\ Cardinality(PreprocessCalls) = 1
                       ELSE /\ inf.arg = image
                            /\ ~inf.preprocessed
                            /\ PreprocessCalls = {}
               ELSE /\ PreprocessCalls = {}
                    /\ IF cfg.frame_buffer_size > 1
                       THEN /\ inf.fn = "stream.txt2img_batch"
                            /\ inf.n = cfg.t_index_len * cfg.frame_buffer_size
                       ELSE inf.fn = "stream.txt2img"

\* C8 witness: an img2img call given a path, and so preprocessed.
C8_Witness ==
    /\ pc = "ready"
    /\ cfg.mode = "img2img"
    /\ image = "str"
    /\ Len(trace) = 5

\* The arguments the claim about caching names: model_id, use_lcm_lora,
\* use_tiny_vae, batch_size and mode.
KeyOf(p) ==
    [ model_id |-> p.model_id, use_lcm_lora |-> p.use_lcm_lora,
      use_tiny_vae |-> p.use_tiny_vae, batch_size |-> p.batch_size,
      mode |-> p.mode ]

EngineFiles == {"unet.engine", "vae_decoder.engine", "vae_encoder.engine"}

\* Earlier loads with the arguments of this one have compiled all three
\* engines successfully.
CachedAll ==
    \A kind \in EngineFiles :
        \E f \in disk0 :
            f.path[3] = kind /\ KeyOf(f.params) = KeyOf(ShapeParams(cfg, self))

\* A file was at the path when this load began.
Existed(path) == \E f \in disk0 : f.path = path

\* Within one load: the compilation was attempted only with no file at the
\* path, and passed over (a later step has run) only with a file there.
CompiledIffAbsent(step, later, path) ==
    /\ step \in Range(log) => ~Existed(path)
    /\ (later \cap Range(log) # {} /\ step \notin Range(log)) => Existed(path)

\* C5: with TensorRT acceleration each engine is compiled exactly when no
\* file is at its engine path; a load that follows loads with the same
\* model_id, use_lcm_lora, use_tiny_vae, batch_size and mode that compiled
\* all three engines attempts no compilation and, when its acceleration
\* block completes, has mounted the engine files those loads left.
C5_EngineCache ==
    (loads > 0 /\ cfg.acceleration = "tensorrt") =>
        /\ CompiledIffAbsent("compile_unet",
                {"compile_vae_decoder", "compile_vae_encoder", "mount_unet"},
                unet_path(cfg, self))
        /\ CompiledIffAbsent("compile_vae_decoder",
                {"compile_vae_encoder", "mount_unet"},
                vae_decoder_path(cfg, self))
        /\ CompiledIffAbsent("compile_vae_encoder", {"mount_unet"},
                vae_encoder_path(cfg, self))
        /\ CachedAll =>
             /\ Range(log) \cap {"compile_unet", "compile_vae_decoder",
                                  "compile_vae_encoder"} = {}
             /\ CompiledNow = {}
             /\ (~raised /\ pc \in {"accel_sfast", "prepare", "init_tail", "ready"}) =>
                  /\ stream.unet.id = "UNet2DConditionModelEngine"
                  /\ stream.vae.id = "AutoencoderKLEngine"
                  /\ \A p \in { stream.unet.engine_path,
                                 stream.vae.decoder_path,
                                 stream.vae.encoder_path } :
                       \E f \in disk0 :
                           /\ f.path = p
                           /\ KeyOf(f.params) = KeyOf(ShapeParams(cfg, self))

\* C5 witness: a second load found all three engines of its key on disk,
\* compiled nothing and mounted them.
C5_Witness ==
    /\ loads = 2
    /\ CachedAll
    /\ pc = "ready"
    /\ ~raised
    /\ stream.unet.id = "UNet2DConditionModelEngine"
    /\ stream.vae.id = "AutoencoderKLEngine"
    /\ "compile_unet" \notin Range(log)

\* The parameters that shape the module an engine file was compiled from:
\* the VAE engines are compiled for batch size 1 outside txt2img mode.
Shaping(p, kind) ==
    IF kind = "unet.engine" \/ p.mode = "txt2img"
    THEN p
    ELSE [ p EXCEPT !.batch_size = 1 ]

Matches(f) ==
    Shaping(f.params, f.path[3]) = Shaping(ShapeParams(cfg, self), f.path[3])

\* C7: an engine file is mounted only by a load whose model_id,
\* lcm_lora_id, vae_id, use_lcm_lora, use_tiny_vae, width, height, batch
\* size and mode are those it was compiled under, and a load never resolves
\* to the engine path of a file compiled under other values of them.
C7_EngineMatchesLoad ==
    /\ stream.unet.id = "UNet2DConditionModelEngine" =>
         \A f \in disk : f.path = stream.unet.engine_path => Matches(f)
    /\ stream.vae.id = "AutoencoderKLEngine" =>
         \A f \in disk :
             f.path \in {stream.vae.encoder_path, stream.vae.decoder_path}
                 => Matches(f)
    /\ pc \in {"compile_unet", "compile_vae_decoder", "compile_vae_encoder",
                "mount_unet", "mount_vae"} =>
         \A f \in disk :
             f.path \in { unet_path(cfg, self), vae_decoder_path(cfg, self),
                          vae_encoder_path(cfg, self) }
                 => Matches(f)

====
